---- MODULE Spec2Model ----
(***************************************************************************)
(* TreasurerAgent (src/disaster_management_system/agents/treasurer.py):    *)
(* funding policy, the pending/completed transaction tables, the           *)
(* reconciliation sweep and the administrative operations.                 *)
(*                                                                         *)
(* The agent's coroutines run on an asyncio event loop: a coroutine runs   *)
(* without interruption from one await of a BlockchainManager call (or of  *)
(* the message channel / sleep) to the next.  The processing loop is one   *)
(* coroutine ("loop"); the web layer invokes distribute_funding and the    *)
(* administrative operations from outside it ("web").  A step of one       *)
(* coroutine is enabled only while every other coroutine is suspended.     *)
(* The operations that only read the two dicts (get_transaction_status,    *)
(* retry_failed_transaction) are operators giving what a call returns in   *)
(* the current state; they can be called in every state in which the       *)
(* processing loop is suspended.                                           *)
(*                                                                         *)
(* Amounts are integers in the 6-digit base unit (0.000001 = 1).           *)
(* The clock counts the times that more than the configured               *)
(* funding_timeout has passed: an entry has timed out when the clock has   *)
(* advanced since its created_at.                                          *)
(***************************************************************************)
EXTENDS Integers, Sequences, FiniteSets, TLC

\* ------------------------------------------------------------------ bounds
MaxTx == 2            \* transaction ids that can be generated

\* ------------------------------------------------------- configuration
min_funding_amount == 1
max_funding_amount == 5
funding_timeout == 0

\* ------------------------------------------------------------ constants
NoTx == 0
TxIds == 1..MaxTx
Callers == {"loop", "web"}
Pending == "pending"
TerminalStatuses == {"confirmed", "failed", "timeout", "stopped"}
LedgerStatuses == {"pending", "confirmed", "failed"}
Balances == {0, 1, 2, 3, 5, 7}

\* What send_multiple_transactions can return: per recipient, whether the
\* result has a 'transaction_hash'.
TransferResults == {<<TRUE>>, <<FALSE>>}

\* The same for a disaster type with several default recipients.
TransferLists == {<<TRUE, TRUE>>, <<FALSE, TRUE>>, <<TRUE, FALSE, TRUE>>}

\* disaster_multipliers, in tenths
disaster_multipliers ==
  [fire |-> 10, flood |-> 12, structural |-> 11, casualty |-> 15]

disaster_factor(disaster_type) ==
  IF disaster_type \in DOMAIN disaster_multipliers
  THEN disaster_multipliers[disaster_type] ELSE 10

\* The verified events the channel and the web layer can hand over
\* (funding_recommendation in base units).  A verified event is immutable,
\* so its event_id determines its fields; a redelivered message carries
\* the same event again.
EventShapes ==
  << [funding_recommendation |-> 0, verification_score |-> 80,
      human_impact_estimate |-> 100, disaster_type |-> "fire"],
     [funding_recommendation |-> 10000, verification_score |-> 100,
      human_impact_estimate |-> 2000, disaster_type |-> "casualty"],
     [funding_recommendation |-> 2, verification_score |-> 100,
      human_impact_estimate |-> 1000, disaster_type |-> "flood"],
     [funding_recommendation |-> 1, verification_score |-> 95,
      human_impact_estimate |-> 1500, disaster_type |-> "structural"],
     [funding_recommendation |-> 4, verification_score |-> 90,
      human_impact_estimate |-> 5000, disaster_type |-> "unknown"] >>

EventWithId(e) ==
  LET s == EventShapes[e]
  IN  [event_id |-> e, funding_recommendation |-> s.funding_recommendation,
       verification_score |-> s.verification_score,
       human_impact_estimate |-> s.human_impact_estimate,
       disaster_type |-> s.disaster_type]

VerifiedEvents == {EventWithId(e) : e \in 1..Len(EventShapes)}

\* The two events at the ends of the policy's range (raw amount below
\* min_funding_amount, raw amount above max_funding_amount): the events of
\* the specification that interleaves the web layer with the loop.
ExtremeEvents == {EventWithId(1), EventWithId(2)}

NoEvent ==
  [event_id |-> 0, funding_recommendation |-> 0, verification_score |-> 0,
   human_impact_estimate |-> 0, disaster_type |-> "none"]

\* ------------------------------------------------------- funding policy
Min(a, b) == IF a < b THEN a ELSE b

\* Denominator of the raw amount: /100 (score), /1000 (impact), /10 (type).
RawDen == 1000000

base_amount(ev) ==
  IF ev.funding_recommendation <= 0 THEN min_funding_amount
  ELSE ev.funding_recommendation

\* verification_factor * impact_factor * disaster_factor, times RawDen
Factor(ev) ==
  ev.verification_score * Min(2000, ev.human_impact_estimate)
    * disaster_factor(ev.disaster_type)

\* Whether base * verification_factor * impact_factor * disaster_factor
\* (line 170) is at least a base units, decided by a division so that no
\* product leaves the 32-bit integers.
RawAtLeast(ev, a) ==
  IF Factor(ev) = 0 THEN a <= 0
  ELSE base_amount(ev) >= (a * RawDen + Factor(ev) - 1) \div Factor(ev)

\* round(x, 6) of num/RawDen base units: round half to even
Round6(num) ==
  LET q == num \div RawDen
      r == num % RawDen
  IN  IF 2 * r > RawDen THEN q + 1
      ELSE IF 2 * r = RawDen THEN q + (q % 2)
      ELSE q

\* A policy without line 176: an amount above the ceiling is returned as
\* it is (in whole base units).
calculate_without_ceiling(ev) ==
  IF ~RawAtLeast(ev, min_funding_amount) THEN min_funding_amount
  ELSE IF RawAtLeast(ev, max_funding_amount)
  THEN (base_amount(ev) * (Factor(ev) \div 1000)) \div 1000
  ELSE Round6(base_amount(ev) * Factor(ev))

\* A policy whose ceiling (line 176) is one base unit too high.
calculate_above_ceiling(ev) ==
  IF RawAtLeast(ev, max_funding_amount + 1) THEN max_funding_amount + 1
  ELSE IF ~RawAtLeast(ev, min_funding_amount)
  THEN Min(max_funding_amount + 1, min_funding_amount)
  ELSE Round6(base_amount(ev) * Factor(ev))

\* Lines 170-178: min(max_funding_amount, max(min_funding_amount, raw)),
\* rounded.
calculate_funding_amount(ev) ==
  IF RawAtLeast(ev, max_funding_amount) THEN max_funding_amount
  ELSE IF ~RawAtLeast(ev, min_funding_amount)
  THEN Min(max_funding_amount, min_funding_amount)
  ELSE Round6(base_amount(ev) * Factor(ev))

\* ---------------------------------------------------------------- state
VARIABLES
  pending_transactions,    \* dict, as its entry array: ids in insertion
                           \* order, NoTx where an entry was popped
  completed_transactions,  \* dict, as the set of its keys
  tx_data,                 \* the record object behind each transaction id
  next_id,                 \* transaction ids generated so far
  now,                     \* datetime.utcnow()
  loop,                    \* the processing loop coroutine and the locals
                           \* of its current _check_pending_transactions
  call,                    \* the distribute_funding activation per caller
  reply,                   \* what the last public operation returned
  observed,                \* per id, what the ledger reported about its
                           \* transfers in the current sweep ("unseen":
                           \* pending when the sweep began, not yet reached)
  sweep_due                \* ids that were pending and older than
                           \* funding_timeout when the current sweep began

vars == <<pending_transactions, completed_transactions, tx_data, next_id,
          now, loop, call, reply, observed, sweep_due>>

NoData ==
  [status |-> "none", transaction_results |-> <<>>, created_at |-> 0,
   total_amount |-> 0, event_id |-> 0]

NoCall == [pc |-> "idle", event |-> NoEvent, funding_amount |-> 0]

NoReply ==
  [op |-> "none", status |-> "none", transaction_id |-> NoTx,
   total_amount |-> 0, stopped_transactions |-> 0, has_hashes |-> FALSE]

IdleLoop ==
  [pc |-> "idle", completed_ids |-> <<>>, di_pos |-> 0, di_used |-> 0,
   tx_id |-> NoTx, i |-> 0, all_confirmed |-> TRUE, any_failed |-> FALSE]

PendingIds ==
  {pending_transactions[k] : k \in DOMAIN pending_transactions} \ {NoTx}

Created == {t \in TxIds : tx_data[t].status # "none"}

\* Program points at which the loop coroutine is suspended in an await.
LoopSuspended == loop.pc \in {"idle", "message", "query", "stalled"}

Init ==
  /\ pending_transactions = <<>>
  /\ completed_transactions = {}
  /\ tx_data = [t \in TxIds |-> NoData]
  /\ next_id = 0
  /\ now = 0
  /\ loop = IdleLoop
  /\ call = [p \in Callers |-> NoCall]
  /\ reply = NoReply
  /\ observed = [t \in TxIds |-> "none"]
  /\ sweep_due = {}

\* ------------------------------------------------- distribute_funding
\* A coroutine other than the processing loop runs only while the loop is
\* suspended; the web layer's own steps all end in an await or a return.
MayRun(p) == p = "loop" \/ LoopSuspended

InFlight == {q \in Callers : call[q].pc # "idle"}

\* FundingTransaction.__post_init__: a transaction id never used before.
NewTransactionId == next_id + 1

\* distribute_funding returns to its caller: process_message (lines 74-85)
\* for the loop, the web layer otherwise.  t = NoTx stands for None.
Returns(p, t, amount) ==
  /\ reply' =
       IF p = "loop"
       THEN [NoReply EXCEPT !.op = "process_message",
               !.status = IF t # NoTx THEN "funding_initiated"
                          ELSE "funding_failed",
               !.transaction_id = t, !.total_amount = amount]
       ELSE [NoReply EXCEPT !.op = "distribute_funding",
               !.status = IF t # NoTx THEN "returned" ELSE "None",
               !.transaction_id = t, !.total_amount = amount]
  /\ loop' = IF p = "loop" THEN [loop EXCEPT !.pc = "idle"] ELSE loop

\* Lines 95-104: compute the amount, reject below the minimum, else await
\* the balance.  For the loop this is process_message taking a message that
\* carries a verified event (lines 70-72).  calc_fault: the amount
\* computation raises inside _calculate_funding_amount, whose except
\* clause (lines 180-182) returns min_funding_amount.
distribute_funding(p, ev, calc_fault) ==
  /\ MayRun(p)
  /\ call[p].pc = "idle"
  /\ p = "loop" => loop.pc = "idle"
  /\ next_id + Cardinality(InFlight) < MaxTx
  /\ LET funding_amount == IF calc_fault THEN min_funding_amount
                            ELSE calculate_funding_amount(ev)
     IN  IF funding_amount < min_funding_amount
         THEN /\ Returns(p, NoTx, 0)
              /\ call' = call
         ELSE /\ call' = [call EXCEPT ![p] =
                    [pc |-> "balance", event |-> ev,
                     funding_amount |-> funding_amount]]
              /\ loop' = IF p = "loop" THEN [loop EXCEPT !.pc = "message"]
                         ELSE loop
              /\ reply' = NoReply
  /\ UNCHANGED <<pending_transactions, completed_transactions, tx_data,
                 next_id, now, observed, sweep_due>>

\* A balance test that also rejects a balance equal to the amount
\* (balance <= funding_amount at line 105).
balance_returns_strict(p, b, fault) ==
  /\ MayRun(p)
  /\ call[p].pc = "balance"
  /\ IF fault \/ b <= call[p].funding_amount
     THEN /\ Returns(p, NoTx, 0)
          /\ call' = [call EXCEPT ![p] = NoCall]
     ELSE /\ call' = [call EXCEPT ![p].pc = "send"]
          /\ reply' = NoReply
          /\ UNCHANGED loop
  /\ UNCHANGED <<pending_transactions, completed_transactions, tx_data,
                 next_id, now, observed, sweep_due>>

\* Lines 104-114: get_balance returns b (or raises); on sufficient balance
\* the transfers are submitted and the coroutine awaits their results.
balance_returns(p, b, fault) ==
  /\ MayRun(p)
  /\ call[p].pc = "balance"
  /\ IF fault \/ b < call[p].funding_amount
     THEN /\ Returns(p, NoTx, 0)
          /\ call' = [call EXCEPT ![p] = NoCall]
     ELSE /\ call' = [call EXCEPT ![p].pc = "send"]
          /\ reply' = NoReply
          /\ UNCHANGED loop
  /\ UNCHANGED <<pending_transactions, completed_transactions, tx_data,
                 next_id, now, observed, sweep_due>>

\* A distribute_funding without lines 129-133: the record is returned but
\* not stored.
send_returns_without_store(p, results, fault) ==
  /\ MayRun(p)
  /\ call[p].pc = "send"
  /\ call' = [call EXCEPT ![p] = NoCall]
  /\ IF fault
     THEN /\ Returns(p, NoTx, 0)
          /\ UNCHANGED <<pending_transactions, tx_data, next_id>>
     ELSE LET t == NewTransactionId
          IN  /\ next_id' = t
              /\ tx_data' = [tx_data EXCEPT ![t] =
                    [status |-> Pending, transaction_results |-> results,
                     created_at |-> now,
                     total_amount |-> call[p].funding_amount,
                     event_id |-> call[p].event.event_id]]
              /\ pending_transactions' = pending_transactions
              /\ Returns(p, t, call[p].funding_amount)
  /\ UNCHANGED <<completed_transactions, now, observed, sweep_due>>

\* Lines 114-135: send_multiple_transactions returns one result per
\* recipient, results[k] telling whether it has a 'transaction_hash' (or
\* the call raises); the record is built and stored as pending.
send_returns(p, results, fault) ==
  /\ MayRun(p)
  /\ call[p].pc = "send"
  /\ call' = [call EXCEPT ![p] = NoCall]
  /\ IF fault
     THEN /\ Returns(p, NoTx, 0)
          /\ UNCHANGED <<pending_transactions, tx_data, next_id>>
     ELSE LET t == NewTransactionId
          IN  /\ next_id' = t
              /\ tx_data' = [tx_data EXCEPT ![t] =
                    [status |-> Pending, transaction_results |-> results,
                     created_at |-> now,
                     total_amount |-> call[p].funding_amount,
                     event_id |-> call[p].event.event_id]]
              /\ pending_transactions' = Append(pending_transactions, t)
              /\ Returns(p, t, call[p].funding_amount)
  /\ UNCHANGED <<completed_transactions, now, observed, sweep_due>>

\* A process_message that funds a message without 'verified_event' at the
\* minimum amount instead of returning at line 87.
process_message_funds_no_event ==
  /\ loop.pc = "idle"
  /\ call["loop"].pc = "idle"
  /\ next_id + Cardinality(InFlight) < MaxTx
  /\ call' = [call EXCEPT !["loop"] =
                [pc |-> "balance", event |-> NoEvent,
                 funding_amount |-> min_funding_amount]]
  /\ loop' = [loop EXCEPT !.pc = "message"]
  /\ reply' = NoReply
  /\ UNCHANGED <<pending_transactions, completed_transactions, tx_data,
                 next_id, now, observed, sweep_due>>

\* Lines 70, 87: a message without 'verified_event'.
process_message_no_event ==
  /\ loop.pc = "idle"
  /\ reply' = [NoReply EXCEPT !.op = "process_message",
                              !.status = "no_event_to_fund"]
  /\ UNCHANGED <<pending_transactions, completed_transactions, tx_data,
                 next_id, now, loop, call, observed, sweep_due>>

\* Lines 71, 89-91: VerifiedEvent.from_dict raises on the message's
\* 'verified_event'; the except clause of process_message returns 'error'.
process_message_bad_event ==
  /\ loop.pc = "idle"
  /\ reply' = [NoReply EXCEPT !.op = "process_message", !.status = "error"]
  /\ UNCHANGED <<pending_transactions, completed_transactions, tx_data,
                 next_id, now, loop, call, observed, sweep_due>>

\* ------------------------------------------ _check_pending_transactions
\* len(self.pending_transactions)
ma_used == Cardinality(PendingIds)

\* The dict iterator of line 193 looks for the next live entry at or after
\* its position; 0 when the entry array is exhausted.  (Within MaxTx
\* insertions the entry array is never compacted by a resize.)
NextEntry(pos) ==
  LET live == {k \in DOMAIN pending_transactions :
                 k >= pos /\ pending_transactions[k] # NoTx}
  IN  IF live = {} THEN 0
      ELSE CHOOSE k \in live : \A m \in live : k <= m

\* Lines 202-203: the next result at or after index i that has a
\* 'transaction_hash'; 0 when there is none.
NextHash(results, i) ==
  LET with == {k \in DOMAIN results : k >= i /\ results[k]}
  IN  IF with = {} THEN 0
      ELSE CHOOSE k \in with : \A m \in with : k <= m

NothingObserved == [t \in TxIds |-> "none"]

\* Lines 191-193: a sweep starts; the for statement creates the iterator.
sweep_begin ==
  /\ loop.pc = "idle"
  /\ loop' = [IdleLoop EXCEPT !.pc = "next", !.di_pos = 1,
                              !.di_used = ma_used]
  /\ observed' = [t \in TxIds |->
                    IF t \in PendingIds THEN "unseen" ELSE "none"]
  /\ sweep_due' = {t \in PendingIds :
                     now - tx_data[t].created_at > funding_timeout}
  /\ reply' = NoReply
  /\ UNCHANGED <<pending_transactions, completed_transactions, tx_data,
                 next_id, now, call>>

\* The inner loop (lines 202-205) from index i on: it runs to the next
\* result with a hash, where the coroutine awaits get_transaction_status,
\* or to its end.
InnerLoopFrom(l, i) ==
  LET h == NextHash(tx_data[l.tx_id].transaction_results, i)
  IN  IF h = 0 THEN [l EXCEPT !.pc = "judge", !.i = 0]
      ELSE [l EXCEPT !.pc = "query", !.i = h]

\* The locals of the entry just left are dead at the next iteration.
NextIteration(l) ==
  [l EXCEPT !.pc = "next", !.tx_id = NoTx, !.i = 0,
            !.all_confirmed = TRUE, !.any_failed = FALSE]

\* Lines 215-230: the status written to the record the sweep holds.
JudgedStatus(old, any_failed, all_confirmed, time_elapsed) ==
  IF time_elapsed > funding_timeout THEN "timeout"
  ELSE IF any_failed THEN "failed"
  ELSE IF all_confirmed THEN "confirmed"
  ELSE old

\* Lines 218, 222, 229: the ids appended to completed_ids.
JudgedIds(t, any_failed, all_confirmed, time_elapsed) ==
  (IF any_failed \/ all_confirmed THEN <<t>> ELSE <<>>)
    \o (IF time_elapsed > funding_timeout THEN <<t>> ELSE <<>>)

\* The sweep continues from l without suspending: where the inner loop is
\* over (pc "judge") lines 215-230 run at once and the for statement is
\* reached again.  The new values of loop and tx_data.
sweep_judge(l) ==
  IF l.pc # "judge" THEN <<l, tx_data>>
  ELSE LET t == l.tx_id
           time_elapsed == now - tx_data[t].created_at
       IN  << NextIteration([l EXCEPT
                 !.completed_ids = @ \o JudgedIds(t, l.any_failed,
                                         l.all_confirmed, time_elapsed)]),
              [tx_data EXCEPT ![t].status =
                 JudgedStatus(@, l.any_failed, l.all_confirmed,
                              time_elapsed)] >>

\* A move that reads the entry without removing it (get instead of pop).
PopKeepsEntry(pend, t) == pend

\* dict.pop(t): the entry becomes a dummy.
Pop(pend, t) == [k \in DOMAIN pend |-> IF pend[k] = t THEN NoTx ELSE pend[k]]

IsPending(pend, t) == \E k \in DOMAIN pend : pend[k] = t

\* Lines 236-238 over the list ids: the resulting <<pending, completed>>.
RECURSIVE MoveCompleted(_, _, _)
MoveCompleted(ids, pend, comp) ==
  IF ids = <<>> THEN <<pend, comp>>
  ELSE LET t == Head(ids)
       IN  IF IsPending(pend, t)
           THEN MoveCompleted(Tail(ids), Pop(pend, t), comp \cup {t})
           ELSE MoveCompleted(Tail(ids), pend, comp)

\* Line 193, the iterator's next(): RuntimeError when the dict changed size
\* since the iterator was created (it propagates to _processing_loop, lines
\* 63-65, which abandons this sweep); else the next entry and lines
\* 195-205 (and 215-230 when no status has to be awaited); else the loop
\* is over and lines 236-238 move the completed entries.
sweep_next ==
  /\ loop.pc = "next"
  /\ IF loop.di_used # ma_used
     THEN /\ loop' = IdleLoop
          /\ observed' = NothingObserved
          /\ sweep_due' = {}
          /\ UNCHANGED <<pending_transactions, completed_transactions,
                         tx_data>>
     ELSE LET k == NextEntry(loop.di_pos)
          IN  IF k = 0
              THEN LET moved == MoveCompleted(loop.completed_ids,
                                  pending_transactions,
                                  completed_transactions)
                   IN  /\ pending_transactions' = moved[1]
                       /\ completed_transactions' = moved[2]
                       /\ loop' = IdleLoop
                       /\ observed' = NothingObserved
                       /\ sweep_due' = {}
                       /\ UNCHANGED tx_data
              ELSE LET next == sweep_judge(InnerLoopFrom(
                                 [loop EXCEPT !.di_pos = k + 1,
                                    !.tx_id = pending_transactions[k],
                                    !.all_confirmed = TRUE,
                                    !.any_failed = FALSE], 1))
                   IN  /\ loop' = next[1]
                       /\ tx_data' = next[2]
                       /\ observed' = [observed EXCEPT
                            ![pending_transactions[k]] = "confirmed"]
                       /\ UNCHANGED <<pending_transactions,
                                      completed_transactions, sweep_due>>
  /\ reply' = NoReply
  /\ UNCHANGED <<next_id, now, call>>

\* An inner loop without the break of line 211: after 'failed' the
\* remaining references are still queried.
query_returns_without_break(status, fault) ==
  /\ loop.pc = "query"
  /\ LET next ==
           IF fault THEN <<NextIteration(loop), tx_data>>
           ELSE IF status = "confirmed"
           THEN sweep_judge(InnerLoopFrom(loop, loop.i + 1))
           ELSE IF status = "failed"
           THEN sweep_judge(InnerLoopFrom(
                  [loop EXCEPT !.any_failed = TRUE], loop.i + 1))
           ELSE sweep_judge(InnerLoopFrom(
                  [loop EXCEPT !.all_confirmed = FALSE], loop.i + 1))
     IN  /\ loop' = next[1]
         /\ tx_data' = next[2]
  /\ observed' =
       [observed EXCEPT ![loop.tx_id] =
          IF fault THEN "fault"
          ELSE IF status = "failed" THEN "failed"
          ELSE IF status = "confirmed" THEN @
          ELSE "other"]
  /\ reply' = NoReply
  /\ UNCHANGED <<pending_transactions, completed_transactions, next_id, now,
                 call, sweep_due>>

\* Lines 205-213 and 232-233: get_transaction_status returns (or raises,
\* which ends the work on this entry), and the sweep runs on.
query_returns(status, fault) ==
  /\ loop.pc = "query"
  /\ LET next ==
           IF fault THEN <<NextIteration(loop), tx_data>>
           ELSE IF status = "confirmed"
           THEN sweep_judge(InnerLoopFrom(loop, loop.i + 1))
           ELSE IF status = "failed"
           THEN sweep_judge([loop EXCEPT !.pc = "judge", !.i = 0,
                                         !.any_failed = TRUE])
           ELSE sweep_judge(InnerLoopFrom(
                  [loop EXCEPT !.all_confirmed = FALSE], loop.i + 1))
     IN  /\ loop' = next[1]
         /\ tx_data' = next[2]
  /\ observed' =
       [observed EXCEPT ![loop.tx_id] =
          IF fault THEN "fault"
          ELSE IF status = "failed" THEN "failed"
          ELSE IF status = "confirmed" THEN @
          ELSE "other"]
  /\ reply' = NoReply
  /\ UNCHANGED <<pending_transactions, completed_transactions, next_id, now,
                 call, sweep_due>>

\* ------------------------------------------- administrative operations
\* Lines 240-274: the snapshot returned for id t in the current state (the
\* operation reads the two dicts and changes nothing).  has_hashes: the
\* snapshot carries 'transaction_hashes', as the one taken from the
\* completed partition does.  Status "None": not found.
get_transaction_status(t) ==
  IF IsPending(pending_transactions, t)
  THEN [NoReply EXCEPT !.op = "get_transaction_status",
          !.status = tx_data[t].status, !.transaction_id = t,
          !.total_amount = tx_data[t].total_amount]
  ELSE IF t \in completed_transactions
  THEN [NoReply EXCEPT !.op = "get_transaction_status",
          !.status = tx_data[t].status, !.transaction_id = t,
          !.total_amount = tx_data[t].total_amount, !.has_hashes = TRUE]
  ELSE [NoReply EXCEPT !.op = "get_transaction_status", !.status = "None"]

\* An emergency stop without line 331: the pending dict is cleared but its
\* entries are not stored in the completed dict.
emergency_stop_drops_entries ==
  /\ LoopSuspended
  /\ tx_data' = [t \in TxIds |->
                   IF t \in PendingIds
                   THEN [tx_data[t] EXCEPT !.status = "stopped"]
                   ELSE tx_data[t]]
  /\ completed_transactions' = completed_transactions
  /\ pending_transactions' = <<>>
  /\ reply' = [NoReply EXCEPT !.op = "emergency_stop_funding",
                 !.status = "emergency_stop_activated",
                 !.stopped_transactions = ma_used]
  /\ UNCHANGED <<next_id, now, loop, call, observed, sweep_due>>

\* An emergency stop without line 333: the pending dict is not cleared.
emergency_stop_without_clear ==
  /\ LoopSuspended
  /\ tx_data' = [t \in TxIds |->
                   IF t \in PendingIds
                   THEN [tx_data[t] EXCEPT !.status = "stopped"]
                   ELSE tx_data[t]]
  /\ completed_transactions' = completed_transactions \cup PendingIds
  /\ pending_transactions' = pending_transactions
  /\ reply' = [NoReply EXCEPT !.op = "emergency_stop_funding",
                 !.status = "emergency_stop_activated",
                 !.stopped_transactions = ma_used]
  /\ UNCHANGED <<next_id, now, loop, call, observed, sweep_due>>

\* Lines 320-339.
emergency_stop_funding ==
  /\ LoopSuspended
  /\ tx_data' = [t \in TxIds |->
                   IF t \in PendingIds
                   THEN [tx_data[t] EXCEPT !.status = "stopped"]
                   ELSE tx_data[t]]
  /\ completed_transactions' = completed_transactions \cup PendingIds
  /\ pending_transactions' = <<>>
  /\ reply' = [NoReply EXCEPT !.op = "emergency_stop_funding",
                 !.status = "emergency_stop_activated",
                 !.stopped_transactions = ma_used]
  /\ UNCHANGED <<next_id, now, loop, call, observed, sweep_due>>

\* A retry that looks the id up in the pending dict as well.
retry_looks_in_pending(t) ==
  [NoReply EXCEPT !.op = "retry_failed_transaction",
     !.status =
       IF t \notin completed_transactions
            /\ ~IsPending(pending_transactions, t)
       THEN "transaction_not_found"
       ELSE IF tx_data[t].status # "failed" THEN "transaction_not_failed"
       ELSE "retry_not_implemented"]

\* Lines 345-361: the outcome returned for id t in the current state, a
\* dict with the key 'status' only (the operation reads
\* completed_transactions and changes nothing).
retry_failed_transaction(t) ==
  [NoReply EXCEPT !.op = "retry_failed_transaction",
     !.status =
       IF t \notin completed_transactions THEN "transaction_not_found"
       ELSE IF tx_data[t].status # "failed" THEN "transaction_not_failed"
       ELSE "retry_not_implemented"]

\* The web layer calls retry_failed_transaction(t): the call runs from its
\* first line to its return without an await.
retry_failed_transaction_call(t) ==
  /\ LoopSuspended
  /\ reply' = retry_failed_transaction(t)
  /\ UNCHANGED <<pending_transactions, completed_transactions, tx_data,
                 next_id, now, loop, call, observed, sweep_due>>

\* The web layer calls get_transaction_status(t) (lines 240-274, no await).
get_transaction_status_call(t) ==
  /\ LoopSuspended
  /\ reply' = get_transaction_status(t)
  /\ UNCHANGED <<pending_transactions, completed_transactions, tx_data,
                 next_id, now, loop, call, observed, sweep_due>>

\* sum(tx_data['funding_transaction'].total_amount for ...) over the ids S.
RECURSIVE SumAmounts(_)
SumAmounts(S) ==
  IF S = {} THEN 0
  ELSE LET t == CHOOSE x \in S : TRUE
       IN  tx_data[t].total_amount + SumAmounts(S \ {t})

\* Lines 294-298: the counters exist for three statuses only; an entry
\* with another status is not counted.
status_counts ==
  [st \in {"confirmed", "failed", "timeout"} |->
     Cardinality({t \in completed_transactions : tx_data[t].status = st})]

\* Lines 276-314: the statistics computed from the two dicts in the current
\* state (the gateway is asked for the balance only afterwards, line 302).
get_funding_stats ==
  [pending_transactions |-> ma_used,
   completed_transactions |-> Cardinality(completed_transactions),
   pending_amount_eth |-> SumAmounts(PendingIds),
   completed_amount_eth |-> SumAmounts(completed_transactions),
   total_amount_eth |-> SumAmounts(PendingIds)
                          + SumAmounts(completed_transactions),
   status_distribution |-> status_counts]

\* Wall-clock time passes while the coroutines are suspended.  The program
\* only compares now - created_at with funding_timeout, so the clock is
\* advanced only while some record has not yet timed out.
Tick ==
  /\ LoopSuspended
  /\ \E t \in Created : now - tx_data[t].created_at <= funding_timeout
  /\ now' = now + 1
  /\ reply' = NoReply
  /\ UNCHANGED <<pending_transactions, completed_transactions, tx_data,
                 next_id, loop, call, observed, sweep_due>>

Next ==
  \/ \E p \in Callers, ev \in ExtremeEvents :
       distribute_funding(p, ev, FALSE)
  \/ \E p \in Callers, b \in Balances, fault \in BOOLEAN :
       balance_returns(p, b, fault)
  \/ \E p \in Callers, results \in TransferResults,
        fault \in BOOLEAN : send_returns(p, results, fault)
  \/ process_message_no_event
  \/ process_message_bad_event
  \/ sweep_begin
  \/ sweep_next
  \/ \E status \in LedgerStatuses, fault \in BOOLEAN :
       query_returns(status, fault)
  \/ emergency_stop_funding
  \/ Tick

Spec == Init /\ [][Next]_vars

\* The processing loop alone (lines 45-65): messages, then a sweep, with
\* nothing invoked from outside it; over every event of the catalogue and
\* with faults of the amount computation.
NextLoop ==
  \/ \E ev \in VerifiedEvents, calc_fault \in BOOLEAN :
       distribute_funding("loop", ev, calc_fault)
  \/ \E b \in Balances, fault \in BOOLEAN : balance_returns("loop", b, fault)
  \/ \E results \in TransferResults, fault \in BOOLEAN :
       send_returns("loop", results, fault)
  \/ process_message_no_event
  \/ process_message_bad_event
  \/ sweep_begin
  \/ sweep_next
  \/ \E status \in LedgerStatuses, fault \in BOOLEAN :
       query_returns(status, fault)
  \/ Tick

SpecLoop == Init /\ [][NextLoop]_vars

\* The administrative calls next to the funding of one event, by the loop
\* and by the web layer, the sweep and the clock.
NextAdmin ==
  \/ \E p \in Callers : distribute_funding(p, EventWithId(2), FALSE)
  \/ \E p \in Callers, b \in Balances, fault \in BOOLEAN :
       balance_returns(p, b, fault)
  \/ \E p \in Callers, results \in TransferResults,
        fault \in BOOLEAN : send_returns(p, results, fault)
  \/ sweep_begin
  \/ sweep_next
  \/ \E status \in LedgerStatuses, fault \in BOOLEAN :
       query_returns(status, fault)
  \/ emergency_stop_funding
  \/ \E t \in TxIds : retry_failed_transaction_call(t)
  \/ \E t \in TxIds : get_transaction_status_call(t)
  \/ Tick

SpecAdmin == Init /\ [][NextAdmin]_vars

\* The operator calls emergency_stop_funding at a moment at which no
\* distribute_funding call is under way.
emergency_stop_between_calls ==
  /\ InFlight = {}
  /\ emergency_stop_funding

\* Funding, sweeps and emergency stops that fall between funding calls.
NextStop ==
  \/ \E p \in Callers, ev \in ExtremeEvents :
       distribute_funding(p, ev, FALSE)
  \/ \E p \in Callers, b \in Balances, fault \in BOOLEAN :
       balance_returns(p, b, fault)
  \/ \E p \in Callers, results \in TransferResults,
        fault \in BOOLEAN : send_returns(p, results, fault)
  \/ sweep_begin
  \/ sweep_next
  \/ \E status \in LedgerStatuses, fault \in BOOLEAN :
       query_returns(status, fault)
  \/ emergency_stop_between_calls
  \/ Tick

SpecStop == Init /\ [][NextStop]_vars

\* Disbursements to several recipients, initiated by the loop and by the
\* web layer, and the sweeps over them.
NextSweep ==
  \/ \E p \in Callers : distribute_funding(p, EventWithId(2), FALSE)
  \/ \E p \in Callers, b \in Balances, fault \in BOOLEAN :
       balance_returns(p, b, fault)
  \/ \E p \in Callers, results \in TransferLists,
        fault \in BOOLEAN : send_returns(p, results, fault)
  \/ sweep_begin
  \/ sweep_next
  \/ \E status \in LedgerStatuses, fault \in BOOLEAN :
       query_returns(status, fault)
  \/ Tick

SpecSweep == Init /\ [][NextSweep]_vars

\* process_message alone (lines 67-139): the messages of the channel are
\* processed one after the other, over every event of the catalogue and
\* with faults of the amount computation.
NextInitiate ==
  \/ \E ev \in VerifiedEvents, calc_fault \in BOOLEAN :
       distribute_funding("loop", ev, calc_fault)
  \/ \E b \in Balances, fault \in BOOLEAN : balance_returns("loop", b, fault)
  \/ \E results \in TransferResults, fault \in BOOLEAN :
       send_returns("loop", results, fault)
  \/ process_message_no_event
  \/ process_message_bad_event

SpecInitiate == Init /\ [][NextInitiate]_vars

\* The processing loop keeps cycling (lines 49-61: each batch of messages
\* is finite and is followed by a sweep, which runs on), every
\* BlockchainManager call the loop awaits returns, normally or by raising,
\* and wall-clock time advances.
Fairness ==
  /\ SF_vars(sweep_begin)
  /\ WF_vars(sweep_next)
  /\ WF_vars(\E status \in LedgerStatuses, fault \in BOOLEAN :
               query_returns(status, fault))
  /\ WF_vars(\E b \in Balances, fault \in BOOLEAN :
               balance_returns("loop", b, fault))
  /\ WF_vars(\E results \in TransferResults, fault \in BOOLEAN :
               send_returns("loop", results, fault))
  /\ SF_vars(Tick)

SpecLive == Init /\ [][NextLoop]_vars /\ Fairness

\* Lines 104, 114, 205: the BlockchainManager call the loop is awaiting will
\* never return.  The awaits are plain awaits (no asyncio.wait_for, no
\* other task that could cancel them), so the coroutine stays suspended.
gateway_call_stalls ==
  /\ loop.pc \in {"message", "query"}
  /\ loop' = [loop EXCEPT !.pc = "stalled"]
  /\ call' = IF loop.pc = "message"
             THEN [call EXCEPT !["loop"].pc = "stalled"] ELSE call
  /\ reply' = NoReply
  /\ UNCHANGED <<pending_transactions, completed_transactions, tx_data,
                 next_id, now, observed, sweep_due>>

\* The processing loop with a gateway whose calls may stall.
NextStall ==
  \/ NextLoop
  \/ gateway_call_stalls

SpecStall == Init /\ [][NextStall]_vars /\ Fairness

\* ---------------------------------------------------------- properties
\* A sweep ends: its for statement raised, or its last statement ran.
SweepEnds == loop.pc = "next" /\ loop'.pc = "idle"

AllHashes(t) ==
  \A k \in DOMAIN tx_data[t].transaction_results :
    tx_data[t].transaction_results[k]

\* C1: an entry that emergency_stop_funding moved keeps status 'stopped'
\* and stays out of the pending partition, whatever a sweep that was
\* suspended during the stop does when it resumes.
C1_StopSurvivesSweep ==
  [][\A t \in TxIds :
       tx_data[t].status = "stopped"
         => /\ tx_data'[t].status = "stopped"
            /\ ~IsPending(pending_transactions', t)]_vars

\* C2: an event whose raw amount is below min_funding_amount gets no
\* disbursement: no transfer is submitted for it and no entry is recorded.
C2_BelowFloorRejected ==
  /\ \A p \in Callers :
       call[p].pc = "send"
         => RawAtLeast(call[p].event, min_funding_amount)
  /\ \A t \in Created :
       RawAtLeast(EventWithId(tx_data[t].event_id), min_funding_amount)

\* C3: a disbursement of which some transfer result carries no transfer
\* reference never gets status 'confirmed'.
C3_PartialNeverConfirmed ==
  \A t \in Created : ~AllHashes(t) => tx_data[t].status # "confirmed"

\* C4: a terminal status that another operation can observe is never
\* changed by a later step.
C4_TerminalAbsorbing ==
  [][\A t \in TxIds :
       (LoopSuspended /\ tx_data[t].status \in TerminalStatuses)
         => tx_data'[t].status = tx_data[t].status]_vars

\* C5: every transaction id ever inserted is in exactly one of the pending
\* and the completed partition, and no id is in the pending dict twice.
C5_Partition ==
  /\ \A t \in TxIds :
       IF t <= next_id
       THEN IsPending(pending_transactions, t)
              # (t \in completed_transactions)
       ELSE ~IsPending(pending_transactions, t)
              /\ t \notin completed_transactions
  /\ \A j, k \in DOMAIN pending_transactions :
       (j # k /\ pending_transactions[j] = pending_transactions[k])
         => pending_transactions[j] = NoTx

\* C5 witness: a sweep is suspended at a status query while both
\* partitions hold entries.
C5_Witness ==
  /\ loop.pc = "query"
  /\ PendingIds # {}
  /\ completed_transactions # {}

\* C6: no two disbursements are ever created for the same event_id.
C6_OneDisbursementPerEvent ==
  \A t, u \in Created :
    t # u => tx_data[t].event_id # tx_data[u].event_id

\* C7: an entry that was pending and older than funding_timeout when a
\* sweep began, and whose status queries did not fault, is in the
\* completed partition with status 'timeout' when that sweep ends (an
\* entry that an emergency stop has stopped meanwhile is left aside).
C7_TimeoutPrecedence ==
  [][SweepEnds =>
       \A t \in sweep_due :
         (observed[t] # "fault" /\ tx_data'[t].status # "stopped")
           => /\ t \in completed_transactions'
              /\ tx_data'[t].status = "timeout"]_vars

\* C8: when a sweep ends, an entry it examined that is not older than
\* funding_timeout and whose every transfer result has a reference is
\* completed and 'confirmed' if every reference reported confirmed,
\* completed and 'failed' if one reported failed, and otherwise still
\* pending with status 'pending' (an entry that an emergency stop has
\* stopped meanwhile is left aside).
C8_SweepResolution ==
  [][SweepEnds =>
       \A t \in TxIds :
         (/\ observed[t] \in {"confirmed", "failed", "other"}
          /\ AllHashes(t)
          /\ now - tx_data[t].created_at <= funding_timeout
          /\ tx_data'[t].status # "stopped")
           => IF observed[t] = "other"
              THEN /\ IsPending(pending_transactions', t)
                   /\ tx_data'[t].status = Pending
              ELSE /\ t \in completed_transactions'
                   /\ ~IsPending(pending_transactions', t)
                   /\ tx_data'[t].status = observed[t]]_vars

\* C9: emergency_stop_funding with N pending entries returns N, empties
\* the pending partition, adds exactly those N entries to the completed
\* partition with status 'stopped', and leaves the entries that were
\* already completed as they were.
C9_EmergencyStopPost ==
  [][emergency_stop_funding =>
       /\ reply'.status = "emergency_stop_activated"
       /\ reply'.stopped_transactions = Cardinality(PendingIds)
       /\ \A k \in DOMAIN pending_transactions' :
            pending_transactions'[k] = NoTx
       /\ completed_transactions' = completed_transactions \cup PendingIds
       /\ Cardinality(completed_transactions')
            = Cardinality(completed_transactions) + Cardinality(PendingIds)
       /\ \A t \in PendingIds : tx_data'[t].status = "stopped"
       /\ \A t \in completed_transactions : tx_data'[t] = tx_data[t]]_vars

\* C9 witness: an emergency stop has just moved a pending entry next to
\* an entry that a sweep had completed before.
C9_Witness ==
  /\ reply.op = "emergency_stop_funding"
  /\ reply.stopped_transactions >= 1
  /\ \E t, u \in completed_transactions :
       /\ tx_data[t].status = "stopped"
       /\ tx_data[u].status \in {"confirmed", "failed", "timeout"}
  /\ PendingIds = {}

\* C10: whenever get_transaction_status can be called (every coroutine is
\* suspended), a snapshot it takes from the pending partition (it has no
\* transfer hashes) has status 'pending', and one it takes from the
\* completed partition has a terminal status; stated for the entries whose
\* every transfer result has a reference.
C10_QueryConsistent ==
  LoopSuspended =>
    \A t \in TxIds :
      (get_transaction_status(t).status # "None" /\ AllHashes(t))
        => IF get_transaction_status(t).has_hashes
           THEN get_transaction_status(t).status \in TerminalStatuses
           ELSE get_transaction_status(t).status = Pending

\* C11: whenever a step on the verified-event path of process_message
\* faults (decoding the event, the balance query, the transfer submission
\* or the construction of the record), process_message returns status
\* 'error' and the pending partition gets no new entry.
C11_FaultsSurfaceAsError ==
  [][(\/ process_message_bad_event
      \/ \E b \in Balances : balance_returns("loop", b, TRUE)
      \/ \E results \in TransferResults :
           send_returns("loop", results, TRUE))
       => /\ reply'.op = "process_message"
          /\ reply'.status = "error"
          /\ pending_transactions' = pending_transactions]_vars

\* C12: every disbursement that distribute_funding has recorded has
\* min_funding_amount <= total_amount <= max_funding_amount, and so a
\* positive total_amount; also when the amount computation faulted.
C12_BoundedAmount ==
  \A t \in Created :
    /\ min_funding_amount <= tx_data[t].total_amount
    /\ tx_data[t].total_amount <= max_funding_amount
    /\ tx_data[t].total_amount > 0

\* C12 witness: a disbursement recorded after the amount computation
\* faulted (the minimum for an event whose policy amount is another one)
\* next to one whose amount, rounded up, is strictly between the two limits.
C12_Witness ==
  \E t, u \in Created :
    /\ tx_data[t].total_amount = min_funding_amount
    /\ calculate_funding_amount(EventWithId(tx_data[t].event_id))
         # min_funding_amount
    /\ tx_data[u].event_id = 4
    /\ tx_data[u].total_amount > min_funding_amount
    /\ tx_data[u].total_amount < max_funding_amount

\* C13: when a sweep ends in which the status query of an entry faulted,
\* that entry is still pending with status 'pending', and every other entry
\* that was pending when the sweep began has been examined and, if its
\* status is terminal, is in the completed partition (entries that an
\* emergency stop has stopped meanwhile are left aside).
C13_FaultIsolation ==
  [][(SweepEnds /\ \E t \in TxIds : observed[t] = "fault") =>
       \A t \in TxIds :
         (observed[t] # "none" /\ tx_data'[t].status # "stopped")
           => IF observed[t] = "fault"
              THEN /\ IsPending(pending_transactions', t)
                   /\ tx_data'[t].status = Pending
              ELSE /\ observed[t] # "unseen"
                   /\ tx_data'[t].status \in TerminalStatuses
                        => /\ t \in completed_transactions'
                           /\ ~IsPending(pending_transactions', t)]_vars

\* C14: while the loop keeps cycling, time advances and every ledger call
\* returns, every entry of the pending partition is eventually in the
\* completed partition with a terminal status.
C14_BoundedResidence ==
  \A t \in TxIds :
    IsPending(pending_transactions, t)
      ~> (t \in completed_transactions
            /\ tx_data[t].status \in TerminalStatuses)

\* C15: after a ledger call of the loop has stalled, the loop eventually
\* runs on (to the remaining entries, to the next cycle).
C15_StallDoesNotStallLoop ==
  (loop.pc = "stalled") ~> (loop.pc # "stalled")

\* A step of process_message (lines 67-91), from taking the message to
\* returning the outcome: it returns the outcome or moves the loop's
\* distribute_funding on to its next await.
ProcessMessageStep ==
  /\ loop.pc \in {"idle", "message"}
  /\ reply'.op = "process_message" \/ call'["loop"] # call["loop"]
  /\ \/ process_message_no_event
     \/ process_message_bad_event
     \/ \E ev \in VerifiedEvents, calc_fault \in BOOLEAN :
          distribute_funding("loop", ev, calc_fault)
     \/ \E b \in Balances, fault \in BOOLEAN :
          balance_returns("loop", b, fault)
     \/ \E results \in TransferResults, fault \in BOOLEAN :
          send_returns("loop", results, fault)

\* C16: the step of process_message that returns 'funding_initiated'
\* inserts exactly one new entry into the pending partition, with status
\* 'pending', under the returned transaction_id and with the returned
\* total_amount; every other step of process_message inserts nothing; and
\* no step of it changes the completed partition.
C16_InitiationBookkeeping ==
  [][ProcessMessageStep =>
       /\ completed_transactions' = completed_transactions
       /\ IF reply'.status = "funding_initiated"
          THEN \E t \in TxIds :
                 /\ ~IsPending(pending_transactions, t)
                 /\ t \notin completed_transactions
                 /\ pending_transactions' = Append(pending_transactions, t)
                 /\ tx_data'[t].status = Pending
                 /\ reply'.transaction_id = t
                 /\ reply'.total_amount = tx_data'[t].total_amount
                 /\ \A u \in TxIds \ {t} : tx_data'[u] = tx_data[u]
          ELSE /\ pending_transactions' = pending_transactions
               /\ tx_data' = tx_data]_vars

\* C16 witness: process_message has just returned 'funding_initiated' for
\* an entry that is now pending, next to an entry completed before.
C16_Witness ==
  /\ reply.op = "process_message"
  /\ reply.status = "funding_initiated"
  /\ IsPending(pending_transactions, reply.transaction_id)
  /\ tx_data[reply.transaction_id].total_amount = reply.total_amount
  /\ completed_transactions # {}

C18_InsufficientBalance ==
  [][\A b \in Balances :
       balance_returns("loop", b, FALSE) =>
         IF b < call["loop"].funding_amount
         THEN /\ reply'.op = "process_message"
              /\ reply'.status = "funding_failed"
              /\ call'["loop"].pc = "idle"
              /\ loop'.pc = "idle"
              /\ pending_transactions' = pending_transactions
              /\ completed_transactions' = completed_transactions
              /\ tx_data' = tx_data
         ELSE /\ call'["loop"].pc = "send"
              /\ call'["loop"].funding_amount
                   = call["loop"].funding_amount]_vars

\* C18 witness: process_message has just returned 'funding_failed' after
\* the balance query, while an earlier disbursement is pending.
C18_Witness ==
  /\ reply.op = "process_message"
  /\ reply.status = "funding_failed"
  /\ call["loop"].pc = "idle"
  /\ PendingIds # {}

\* C19: whenever get_funding_stats can be called, the counts of its
\* status_distribution add up to its completed_transactions.
C19_HistogramCoversCompleted ==
  LoopSuspended =>
    get_funding_stats.status_distribution["confirmed"]
      + get_funding_stats.status_distribution["failed"]
      + get_funding_stats.status_distribution["timeout"]
      = get_funding_stats.completed_transactions

\* C20: for an event whose raw amount is at least max_funding_amount, when
\* nothing faults, distribute_funding computes exactly max_funding_amount;
\* with that amount and a balance of at least max_funding_amount it submits
\* the transfers; and the disbursement it then records and returns has the
\* computed amount as its total_amount.
C20_ClampToCeiling ==
  [][\A p \in Callers :
       /\ \A ev \in VerifiedEvents :
            (distribute_funding(p, ev, FALSE)
               /\ RawAtLeast(ev, max_funding_amount))
              => /\ call'[p].pc = "balance"
                 /\ call'[p].funding_amount = max_funding_amount
       /\ \A b \in Balances :
            (/\ balance_returns(p, b, FALSE)
             /\ call[p].funding_amount = max_funding_amount
             /\ b >= max_funding_amount)
              => /\ call'[p].pc = "send"
                 /\ call'[p].funding_amount = max_funding_amount
       /\ \A results \in TransferResults :
            send_returns(p, results, FALSE)
              => /\ IsPending(pending_transactions', reply'.transaction_id)
                 /\ ~IsPending(pending_transactions, reply'.transaction_id)
                 /\ tx_data'[reply'.transaction_id].total_amount
                      = call[p].funding_amount
                 /\ reply'.total_amount = call[p].funding_amount]_vars

\* C20 witness: process_message has just initiated the disbursement for
\* the event with recommendation 0.01, score 100, impact 2000, type
\* casualty, at exactly max_funding_amount, after one for the event with
\* impact 5000 and an unknown type.
C20_Witness ==
  /\ \E u \in PendingIds : /\ tx_data[u].event_id = 5
                           /\ tx_data[u].total_amount = max_funding_amount
  /\ reply.op = "process_message"
  /\ reply.status = "funding_initiated"
  /\ reply.total_amount = max_funding_amount
  /\ IsPending(pending_transactions, reply.transaction_id)
  /\ tx_data[reply.transaction_id].event_id = 2
  /\ tx_data[reply.transaction_id].total_amount = max_funding_amount
  /\ RawAtLeast(EventWithId(2), max_funding_amount)

\* C21: retry_failed_transaction returns 'transaction_not_found' for an id
\* that is not in the completed partition (also when it is pending),
\* 'transaction_not_failed' for a completed entry whose status is not
\* 'failed', 'retry_not_implemented' for a completed entry with status
\* 'failed'; and it changes neither partition, no record, and starts no
\* gateway call.
C21_RetryOutcomes ==
  [][\A t \in TxIds :
       retry_failed_transaction_call(t) =>
         /\ reply'.op = "retry_failed_transaction"
         /\ (t \notin completed_transactions
                \/ IsPending(pending_transactions, t))
              => reply'.status = "transaction_not_found"
         /\ (t \in completed_transactions
                /\ tx_data[t].status
                     \in {"pending", "confirmed", "timeout", "stopped"})
              => reply'.status = "transaction_not_failed"
         /\ (t \in completed_transactions /\ tx_data[t].status = "failed")
              => reply'.status = "retry_not_implemented"
         /\ pending_transactions' = pending_transactions
         /\ completed_transactions' = completed_transactions
         /\ tx_data' = tx_data
         /\ call' = call
         /\ loop' = loop]_vars

\* C21 witness: a retry has just been refused for a failed entry of the
\* completed partition while another entry is pending.
C21_Witness ==
  /\ reply.op = "retry_failed_transaction"
  /\ reply.status = "retry_not_implemented"
  /\ \E t \in completed_transactions : tx_data[t].status = "failed"
  /\ PendingIds # {}

C23_StopHaltsFunding ==
  (\E t \in Created : tx_data[t].status = "stopped") => PendingIds = {}

\* C24: a disbursement that the web layer initiates while a sweep is
\* suspended at a status query does not disturb the sweep: the sweep ends
\* by running its last statement, not by a raise of its for statement, and
\* at its end every entry it judged confirmed, failed or timed out is in
\* the completed partition and no longer in the pending one.
C24_InsertDoesNotDisturbSweep ==
  [][SweepEnds =>
       /\ loop.di_used = ma_used
       /\ \A k \in DOMAIN loop.completed_ids :
            /\ loop.completed_ids[k] \in completed_transactions'
            /\ ~IsPending(pending_transactions', loop.completed_ids[k])]_vars

\* C25: total_amount_eth of get_funding_stats (the sum of total_amount over
\* both partitions) and the number of entries over both partitions change
\* only in the step in which a funding call stores its disbursement, then
\* by that disbursement's amount and by one entry; every other step (of a
\* sweep, an emergency stop, a retry, a status query, a refused or failed
\* funding call) leaves both as they are; and no step changes the
\* total_amount, the per-recipient results, created_at or the event of a
\* record that exists.
C25_Conservation ==
  [][/\ \/ tx_data' = tx_data
        \/ \A t \in Created :
             /\ tx_data'[t].total_amount = tx_data[t].total_amount
             /\ tx_data'[t].transaction_results
                  = tx_data[t].transaction_results
             /\ tx_data'[t].created_at = tx_data[t].created_at
             /\ tx_data'[t].event_id = tx_data[t].event_id
     /\ IF \E p \in Callers :
             /\ call[p].pc = "send"
             /\ call'[p].pc = "idle"
             /\ reply'.status \in {"funding_initiated", "returned"}
        THEN \E p \in Callers :
               /\ call[p].pc = "send"
               /\ call'[p].pc = "idle"
               /\ get_funding_stats'.total_amount_eth
                    = get_funding_stats.total_amount_eth
                        + call[p].funding_amount
               /\ get_funding_stats'.pending_transactions
                      + get_funding_stats'.completed_transactions
                    = get_funding_stats.pending_transactions
                        + get_funding_stats.completed_transactions + 1
        ELSE \/ UNCHANGED <<pending_transactions, completed_transactions,
                            tx_data>>
             \/ /\ get_funding_stats'.total_amount_eth
                      = get_funding_stats.total_amount_eth
                /\ get_funding_stats'.pending_transactions
                        + get_funding_stats'.completed_transactions
                      = get_funding_stats.pending_transactions
                          + get_funding_stats.completed_transactions
    ]_vars

\* C25 witness: two disbursements have been stored, one of them has been
\* stopped and one is pending, a retry has just been answered, and the
\* statistics count both entries and both amounts.
C25_Witness ==
  /\ reply.op = "retry_failed_transaction"
  /\ \E t \in completed_transactions : tx_data[t].status = "stopped"
  /\ get_funding_stats.pending_transactions = 1
  /\ get_funding_stats.completed_transactions = 1
  /\ get_funding_stats.total_amount_eth
       = 2 * calculate_funding_amount(EventWithId(2))

====
